---- MODULE Spec2Model ----
(***************************************************************************)
(* Model of berries/berries.py (BerriesAPI, BerriesService) and of the     *)
(* event-loop run of berries/cli.py.                                       *)
(*                                                                         *)
(* A "call" is one invocation of BerriesAPI.get, BerriesAPI.get_all or     *)
(* BerriesAPI.get_all_generator by a caller coroutine.  The remote service *)
(* answers every request with a response the model chooses; the detail     *)
(* tasks created by asyncio.as_completed are futures identified by their   *)
(* position in the task list.                                              *)
(***************************************************************************)
EXTENDS Integers, Sequences, FiniteSets, TLC

\* ---------------------------------------------------------------- bounds
MaxLen == 3        \* longest index listing the remote returns
MaxCalls == 2      \* calls of the repository in flight together (SpecCalls)
MaxLenCalls == 1   \* longest index listing when several calls run (SpecCalls)
MaxExtra == 1      \* advances of a sequence that has already finished
MaxFlavors == 2    \* longest `flavors` array of a detail document (SpecGet)

VARIABLES
    loop,       \* "running" | "closed": the event loop of asyncio.run
    listing,    \* the remote's index listing (names, in listing order)
    kind,       \* kind[c]: "none" | "get" | "get_all" | "get_all_generator"
    arg,        \* arg[c]: the identifier passed to get
    pc,         \* pc[c]: where call c is suspended
    idx,        \* idx[c]: state of the index request of call c
    names,      \* names[c]: the local `names` of get_all_generator
    task,       \* task[c]: the futures as_completed made of `tasks`
    doneq,      \* doneq[c]: as_completed's `done` queue (futures)
    order,      \* order[c]: history of the futures of c in completion order
    out,        \* out[c]: what the generator has yielded, in order
    acc,        \* acc[c]: the list get_all's comprehension is building
    ret,        \* ret[c]: the value call c returned
    err,        \* err[c]: the error call c raised
    advances,   \* advances[c]: times the sequence of c was advanced
    extra,      \* extra[c]: advances made after the sequence had finished
    sent,       \* sent[c][u]: HTTP GETs call c issued to URL u
    doc,        \* doc[n]: the detail document the remote holds for name n
    via,        \* via[c]: "repository" (BerriesAPI called directly) | "service"
    repo,       \* repo[c]: calls of the repository made for call c
    seen        \* seen[c]: what the caller of BerriesService got from call c

vars == <<loop, listing, kind, arg, pc, idx, names, task, doneq, order,
          out, acc, ret, err, advances, extra, sent, doc, via, repo, seen>>

\* ------------------------------------------------------------- the remote
Names == {"cheri", "chesto"}
Calls == 1..MaxCalls
Listings == UNION {[1..n -> Names] : n \in 0..MaxLen}

BaseURL == <<"berry">>
DetailURL(id) == <<"berry", id>>
URLs == {BaseURL} \cup {DetailURL(n) : n \in Names}

\* An absent value is the empty sequence, a present value v is <<v>>.
None == <<>>
Some(v) == <<v>>
NoData == [none |-> TRUE]    \* a body without the fields the code reads
HTTPStatusError == "HTTPStatusError"
KeyError == "KeyError"

\* httpx.HTTPStatusError keeps the request (its URL) and the response (its
\* status code); a KeyError keeps the key that was looked up.
StatusErrorOf(response) ==
    [type |-> HTTPStatusError, status_code |-> response.status, url |-> response.url, key |-> ""]
KeyErrorOf(k) ==
    [type |-> KeyError, status_code |-> 0, url |-> <<>>, key |-> k]

\* The detail document the unchanged remote holds for a name.
RemoteData(id) ==
    IF id = "cheri"
    THEN [id |-> 1, name |-> "cheri",
          firmness |-> [name |-> "soft", url |-> "u1"],
          flavors |-> <<[flavor |-> [name |-> "spicy", url |-> "u2"], potency |-> 10]>>]
    ELSE [id |-> 2, name |-> "chesto",
          firmness |-> [name |-> "super-hard", url |-> "u3"],
          flavors |-> <<[flavor |-> [name |-> "spicy", url |-> "u2"], potency |-> 0],
                        [flavor |-> [name |-> "dry", url |-> "u4"], potency |-> 10]>>]

\* Detail documents a remote may hold: well-formed ones, and ones with one
\* of the fields the code reads left out.
Without(d, key) == [k \in DOMAIN d \ {key} |-> d[k]]
FullFlavor(p) == [flavor |-> [name |-> "spicy", url |-> "u2"], potency |-> p]
FlavorDocs ==
    {FullFlavor(0), FullFlavor(10),
     Without(FullFlavor(10), "flavor"),
     Without(FullFlavor(10), "potency"),
     [FullFlavor(10) EXCEPT !.flavor = Without(@, "name")],
     [FullFlavor(10) EXCEPT !.flavor = Without(@, "url")]}
FlavorArrays == UNION {[1..n -> FlavorDocs] : n \in 0..MaxFlavors}
FullDoc(nm, fl) ==
    [id |-> 1, name |-> nm, firmness |-> [name |-> "soft", url |-> "u1"], flavors |-> fl]
Documents ==
    UNION {{FullDoc(nm, fl),
            Without(FullDoc(nm, fl), "id"),
            Without(FullDoc(nm, fl), "name"),
            Without(FullDoc(nm, fl), "firmness"),
            Without(FullDoc(nm, fl), "flavors"),
            [FullDoc(nm, fl) EXCEPT !.firmness = Without(@, "name")],
            [FullDoc(nm, fl) EXCEPT !.firmness = Without(@, "url")]}
             : nm \in Names, fl \in FlavorArrays}

\* Responses the remote may give to GET {url}/{id}: its document for the
\* name, or a non-success status.
DetailResponses(id) ==
    {[status |-> 200, data |-> doc[id], url |-> DetailURL(id)],
     [status |-> 404, data |-> NoData, url |-> DetailURL(id)]}

\* Responses the remote may give to GET {url}: the listing, a non-success
\* status, or a body without "results".
IndexResponses ==
    {[status |-> 200, data |-> [results |-> [k \in 1..Len(listing) |-> [name |-> listing[k]]]],
      url |-> BaseURL],
     [status |-> 404, data |-> NoData, url |-> BaseURL],
     [status |-> 200, data |-> NoData, url |-> BaseURL]}

\* ------------------------------------------------------------ pure parts
Firmness(d) == [name |-> d.name, url |-> d.url]

Flavor(f) == [name |-> f.flavor.name, url |-> f.flavor.url, potency |-> f.potency]

\* Variant: the flavors are collected in reverse.
BerryReversed(data) ==
    [id |-> data.id,
     name |-> data.name,
     firmness |-> Firmness(data.firmness),
     flavors |-> [k \in 1..Len(data.flavors) |->
                    Flavor(data.flavors[Len(data.flavors) + 1 - k])]]


Berry(data) ==
    [id |-> data.id,
     name |-> data.name,
     firmness |-> Firmness(data.firmness),
     flavors |-> [k \in 1..Len(data.flavors) |-> Flavor(data.flavors[k])]]

\* response.raise_for_status()
RaiseForStatus(response) == response.status \in 200..299

\* The subscripts of one entry of data["flavors"] that lines 78 reads, in
\* the order it reads them; "" when none is missing.
MissingInFlavor(f) ==
    IF "flavor" \notin DOMAIN f THEN "flavor"
    ELSE IF "name" \notin DOMAIN f.flavor THEN "name"
    ELSE IF "url" \notin DOMAIN f.flavor THEN "url"
    ELSE IF "potency" \notin DOMAIN f THEN "potency"
    ELSE ""

\* The first key lines 73-80 look up and do not find, in evaluation order;
\* "" when the document has them all.
FirstMissing(data) ==
    IF "id" \notin DOMAIN data THEN "id"
    ELSE IF "name" \notin DOMAIN data THEN "name"
    ELSE IF "firmness" \notin DOMAIN data THEN "firmness"
    ELSE IF "name" \notin DOMAIN data.firmness THEN "name"
    ELSE IF "url" \notin DOMAIN data.firmness THEN "url"
    ELSE IF "flavors" \notin DOMAIN data THEN "flavors"
    ELSE IF \E k \in 1..Len(data.flavors) : MissingInFlavor(data.flavors[k]) # ""
    THEN LET k == CHOOSE j \in 1..Len(data.flavors) :
                    /\ MissingInFlavor(data.flavors[j]) # ""
                    /\ \A i \in 1..(j - 1) : MissingInFlavor(data.flavors[i]) = ""
         IN MissingInFlavor(data.flavors[k])
    ELSE ""

\* Variant: an absent "flavors" is read as an empty array.
GetOutcomeDefaulting(response) ==
    IF ~RaiseForStatus(response)
    THEN [ok |-> FALSE, val |-> StatusErrorOf(response)]
    ELSE IF "flavors" \notin DOMAIN response.data /\ {"id", "name"} \subseteq DOMAIN response.data
            /\ "firmness" \in DOMAIN response.data
            /\ {"name", "url"} \subseteq DOMAIN response.data.firmness
    THEN [ok |-> TRUE,
          val |-> [id |-> response.data.id, name |-> response.data.name,
                   firmness |-> Firmness(response.data.firmness), flavors |-> <<>>]]
    ELSE IF FirstMissing(response.data) # ""
    THEN [ok |-> FALSE, val |-> KeyErrorOf(FirstMissing(response.data))]
    ELSE [ok |-> TRUE, val |-> Berry(response.data)]

\* The outcome of BerriesAPI.get for a response: the Berry or the error.
GetOutcome(response) ==
    IF ~RaiseForStatus(response)
    THEN [ok |-> FALSE, val |-> StatusErrorOf(response)]
    ELSE IF FirstMissing(response.data) # ""
    THEN [ok |-> FALSE, val |-> KeyErrorOf(FirstMissing(response.data))]
    ELSE [ok |-> TRUE, val |-> Berry(response.data)]

\* Variant: the first entry of the listing is skipped.
IndexOutcomeSkipFirst(response) ==
    IF ~RaiseForStatus(response)
    THEN [ok |-> FALSE, val |-> StatusErrorOf(response)]
    ELSE IF "results" \notin DOMAIN response.data
    THEN [ok |-> FALSE, val |-> KeyErrorOf("results")]
    ELSE [ok |-> TRUE,
          val |-> [k \in 1..(Len(response.data.results) - 1) |-> response.data.results[k + 1].name]]

\* The outcome of lines 102-104 for an index response: the names or the error.
IndexOutcome(response) ==
    IF ~RaiseForStatus(response)
    THEN [ok |-> FALSE, val |-> StatusErrorOf(response)]
    ELSE IF "results" \notin DOMAIN response.data
    THEN [ok |-> FALSE, val |-> KeyErrorOf("results")]
    ELSE [ok |-> TRUE,
          val |-> [k \in 1..Len(response.data.results) |-> response.data.results[k].name]]

\* Variant: at most two fetches are launched at a time.
LaunchTasksCapped(ns) ==
    [k \in 1..(IF Len(ns) < 2 THEN Len(ns) ELSE 2) |->
        [name |-> ns[k], st |-> "pending", res |-> None, exc |-> None]]

\* tasks = [self.get(name) for name in names]; as_completed wraps each
\* coroutine in a future of its own and schedules it.
LaunchTasks(ns) ==
    [k \in 1..Len(ns) |-> [name |-> ns[k], st |-> "pending", res |-> None, exc |-> None]]

\* Variant: the loop waits for a first future before it tests for the end.
ExhaustedAfterOne(n, ts) == n >= 1 /\ n = Len(ts)

\* for _ in range(len(todo)): the loop of as_completed is over once it has
\* handed out as many waits as there are futures.
Exhausted(n, ts) == n = Len(ts)

\* _cancel_all_tasks of the runner: every task not yet done is cancelled.
CancelAllTasks(ts) ==
    [k \in 1..Len(ts) |-> IF ts[k].st = "pending" THEN [ts[k] EXCEPT !.st = "cancelled"] ELSE ts[k]]

\* Variant: an error leaving the generator cancels the fetches in flight.
CancelPending(ts) == CancelAllTasks(ts)

\* An error leaving the generator drops the as_completed iterator; nothing
\* in lines 106-109 touches the futures that are still pending.
LeftRunning(ts) == ts

\* Variant: the ready future that comes first in the listing is taken.
NextDoneByListing(q) == CHOOSE f \in {q[k] : k \in 1..Len(q)} : \A k \in 1..Len(q) : f <= q[k]

\* _wait_for_one: f = await done.get() takes the oldest finished future.
NextDone(q) == Head(q)

\* return f.result(): raises f.exception() when the fetch failed.
ResultRaises(t) == t.st = "failed"

\* Variant: done.get() leaves the future it returns on the queue.
TakenLeftInQueue(q, f) == q

\* done.get() removes the future it returns from the queue.
Taken(q, f) == SelectSeq(q, LAMBDA x : x # f)

Bump(s, u) == [s EXCEPT ![u] = @ + 1]

\* Variant: the service swallows the error of the repository.
FacadeSwallows(o, r, e) == [out |-> o, ret |-> r, err |-> <<>>]

\* BerriesService: get and get_all return what the repository's call
\* returns or raises; get_all_generator yields every berry of the
\* repository's sequence as it comes and lets its error through.
Facade(o, r, e) == [out |-> o, ret |-> r, err |-> e]

Vias == {"repository", "service"}
NothingSeen == [out |-> <<>>, ret |-> None, err |-> None]
BerriesOf(o) == [k \in 1..Len(o) |-> o[k].berry]

\* -------------------------------------------------------------- initial
Init ==
    /\ loop = "running"
    /\ listing \in Listings
    /\ kind = [c \in Calls |-> "none"]
    /\ arg = [c \in Calls |-> None]
    /\ pc = [c \in Calls |-> "none"]
    /\ idx = [c \in Calls |-> "none"]
    /\ names = [c \in Calls |-> <<>>]
    /\ task = [c \in Calls |-> <<>>]
    /\ doneq = [c \in Calls |-> <<>>]
    /\ order = [c \in Calls |-> <<>>]
    /\ out = [c \in Calls |-> <<>>]
    /\ acc = [c \in Calls |-> <<>>]
    /\ ret = [c \in Calls |-> None]
    /\ err = [c \in Calls |-> None]
    /\ advances = [c \in Calls |-> 0]
    /\ extra = [c \in Calls |-> 0]
    /\ sent = [c \in Calls |-> [u \in URLs |-> 0]]
    /\ doc = [n \in Names |-> RemoteData(n)]
    /\ via = [c \in Calls |-> "none"]
    /\ repo = [c \in Calls |-> 0]
    /\ seen = [c \in Calls |-> NothingSeen]

\* A call is over when it has returned, raised, or its sequence has ended.
Finished(c) == pc[c] \in {"returned", "raised", "ended"}

\* Call slot c is the next unused one (slots are taken in order; which
\* call gets which slot does not matter to the calls).
MayCall(c) ==
    /\ loop = "running"
    /\ kind[c] = "none"
    /\ \A d \in Calls : d < c => kind[d] # "none"

\* Variant: the error is noted but the sequence goes on to the next result.
RaiseAndContinue(c, e) ==
    /\ err' = [err EXCEPT ![c] = Some(e)]
    /\ pc' = pc
    /\ ret' = ret

\* Variant: the error is swallowed and the sequence just ends.
RaiseAsEnd(c, e) ==
    /\ err' = err
    /\ pc' = [pc EXCEPT ![c] = "ended"]
    /\ ret' = ret

\* Variant: get_all swallows the error and returns what it has collected.
RaiseReturnsPartial(c, e) ==
    /\ err' = err
    /\ pc' = [pc EXCEPT ![c] = IF kind[c] = "get_all" THEN "ended" ELSE "raised"]
    /\ ret' = [ret EXCEPT ![c] = IF kind[c] = "get_all" THEN Some(acc[c]) ELSE @]

\* -------------------------------------------------------------- actions
\* What the step hands to the caller of call c passes through the service
\* when the call was made through it.
Observed(c) ==
    seen' = [seen EXCEPT ![c] =
               IF via[c] = "service"
               THEN Facade(IF kind[c] = "get_all_generator" THEN BerriesOf(out'[c]) ELSE <<>>,
                           ret'[c], err'[c])
               ELSE @]

\* Variant: the flavors list is shared between the Berries of the calls and
\* grows with every call.
ReturnShared(c, v) ==
    /\ ret' = [ret EXCEPT ![c] =
                IF \E d \in Calls : d # c /\ pc[d] = "returned"
                THEN Some([v EXCEPT !.flavors = @ \o @]) ELSE Some(v)]
    /\ pc' = [pc EXCEPT ![c] = "returned"]
    /\ err' = err

\* A value is returned to the caller of call c.
Return(c, v) ==
    /\ ret' = [ret EXCEPT ![c] = Some(v)]
    /\ pc' = [pc EXCEPT ![c] = "returned"]
    /\ err' = err

\* Error e leaves call c: the caller gets the error and no value.
Raise(c, e) ==
    /\ err' = [err EXCEPT ![c] = Some(e)]
    /\ pc' = [pc EXCEPT ![c] = "raised"]
    /\ ret' = ret

\* Variant: the request is issued a second time.
CallGetTwice(c, id, v) ==
    /\ MayCall(c)
    /\ kind' = [kind EXCEPT ![c] = "get"]
    /\ via' = [via EXCEPT ![c] = v]
    /\ repo' = [repo EXCEPT ![c] = 1]
    /\ arg' = [arg EXCEPT ![c] = Some(id)]
    /\ pc' = [pc EXCEPT ![c] = "get"]
    /\ sent' = [sent EXCEPT ![c] = Bump(Bump(@, DetailURL(id)), DetailURL(id))]
    /\ UNCHANGED <<loop, listing, idx, names, task, doneq, order, out, acc,
                   ret, err, advances, extra, doc, seen>>

\* BerriesAPI.get(id): issue GET {url}/{id} and wait for the response.
CallGet(c, id, v) ==
    /\ MayCall(c)
    /\ kind' = [kind EXCEPT ![c] = "get"]
    /\ via' = [via EXCEPT ![c] = v]
    /\ repo' = [repo EXCEPT ![c] = 1]
    /\ arg' = [arg EXCEPT ![c] = Some(id)]
    /\ pc' = [pc EXCEPT ![c] = "get"]
    /\ sent' = [sent EXCEPT ![c] = Bump(@, DetailURL(id))]
    /\ UNCHANGED <<loop, listing, idx, names, task, doneq, order, out, acc,
                   ret, err, advances, extra, doc, seen>>

\* The response of a get call arrives: lines 72-81.
GetResponse(c) ==
    /\ loop = "running"
    /\ pc[c] = "get"
    /\ \E response \in DetailResponses(arg[c][1]) :
         LET o == GetOutcome(response) IN
         IF o.ok
         THEN Return(c, o.val)
         ELSE Raise(c, o.val)
    /\ UNCHANGED <<loop, listing, kind, arg, idx, names, task, doneq, order,
                   out, acc, advances, extra, sent, doc, via, repo>>
    /\ Observed(c)

\* Variant: the call itself issues the index request.
CallGeneratorEager(c, v) ==
    /\ MayCall(c)
    /\ kind' = [kind EXCEPT ![c] = "get_all_generator"]
    /\ via' = [via EXCEPT ![c] = v]
    /\ repo' = [repo EXCEPT ![c] = IF v = "service" THEN 0 ELSE 1]
    /\ pc' = [pc EXCEPT ![c] = "created"]
    /\ sent' = [sent EXCEPT ![c] = Bump(@, BaseURL)]
    /\ UNCHANGED <<loop, listing, arg, idx, names, task, doneq, order, out,
                   acc, ret, err, advances, extra, doc, seen>>

\* BerriesAPI.get_all_generator(): calling it only makes the generator
\* object; no line of the body runs.  Called through the service, only the
\* service's generator object is made: the repository's get_all_generator
\* is called when line 123 runs, at the first advance.
CallGenerator(c, v) ==
    /\ MayCall(c)
    /\ kind' = [kind EXCEPT ![c] = "get_all_generator"]
    /\ via' = [via EXCEPT ![c] = v]
    /\ repo' = [repo EXCEPT ![c] = IF v = "service" THEN 0 ELSE 1]
    /\ pc' = [pc EXCEPT ![c] = "created"]
    /\ UNCHANGED <<loop, listing, arg, idx, names, task, doneq, order, out,
                   acc, ret, err, advances, extra, sent, doc, seen>>

\* Variant: an index request already made by another call is shared.
RequestIndexShared(c) ==
    /\ idx' = [idx EXCEPT ![c] = "sent"]
    /\ sent' = IF \E d \in Calls : d # c /\ idx[d] # "none"
               THEN sent ELSE [sent EXCEPT ![c] = Bump(@, BaseURL)]
    /\ advances' = [advances EXCEPT ![c] = @ + 1]
    /\ pc' = [pc EXCEPT ![c] = "index"]

\* The first advance: the body runs to line 102 and issues GET {url}.
RequestIndex(c) ==
    /\ idx' = [idx EXCEPT ![c] = "sent"]
    /\ sent' = [sent EXCEPT ![c] = Bump(@, BaseURL)]
    /\ advances' = [advances EXCEPT ![c] = @ + 1]
    /\ pc' = [pc EXCEPT ![c] = "index"]

AdvanceFirst(c) ==
    /\ loop = "running"
    /\ kind[c] = "get_all_generator"
    /\ pc[c] = "created"
    /\ RequestIndex(c)
    /\ repo' = [repo EXCEPT ![c] = 1]
    /\ UNCHANGED <<loop, listing, kind, arg, names, task, doneq, order, out,
                   acc, ret, err, extra, doc, via, seen>>

\* BerriesAPI.get_all(): the comprehension advances the generator at once.
CallGetAll(c, v) ==
    /\ MayCall(c)
    /\ kind' = [kind EXCEPT ![c] = "get_all"]
    /\ via' = [via EXCEPT ![c] = v]
    /\ repo' = [repo EXCEPT ![c] = 1]
    /\ RequestIndex(c)
    /\ UNCHANGED <<loop, listing, arg, names, task, doneq, order, out, acc,
                   ret, err, extra, doc, seen>>

\* Variant: get_all returns the items in reverse.
EndOfReversed(c, list) ==
    /\ pc' = [pc EXCEPT ![c] = "ended"]
    /\ ret' = [ret EXCEPT ![c] =
                IF kind[c] = "get_all"
                THEN Some([k \in 1..Len(list) |-> list[Len(list) + 1 - k]]) ELSE @]

\* The end of the sequence as its consumer sees it: the generator returns;
\* get_all returns the list it collected.
EndOf(c, list) ==
    /\ pc' = [pc EXCEPT ![c] = "ended"]
    /\ ret' = [ret EXCEPT ![c] = IF kind[c] = "get_all" THEN Some(list) ELSE @]

\* The index response arrives: lines 103-107.  On an error the generator
\* raises; otherwise every detail fetch is launched in the same step and the
\* generator waits for the first to finish (or ends when there is none).
IndexResponse(c) ==
    /\ loop = "running"
    /\ pc[c] = "index"
    /\ \E response \in IndexResponses :
         LET o == IndexOutcome(response) IN
         IF ~o.ok
         THEN /\ idx' = [idx EXCEPT ![c] = o.val.type]
              /\ Raise(c, o.val)
              /\ UNCHANGED <<names, task, sent>>
         ELSE /\ idx' = [idx EXCEPT ![c] = "ok"]
              /\ names' = [names EXCEPT ![c] = o.val]
              /\ task' = [task EXCEPT ![c] = LaunchTasks(o.val)]
              /\ sent' = [sent EXCEPT ![c] =
                            [u \in URLs |-> @[u] +
                               Cardinality({k \in 1..Len(o.val) : DetailURL(o.val[k]) = u})]]
              /\ err' = err
              /\ IF Exhausted(0, task'[c])
                 THEN EndOf(c, acc[c])
                 ELSE pc' = [pc EXCEPT ![c] = "waiting"] /\ ret' = ret
    /\ UNCHANGED <<loop, listing, kind, arg, doneq, order, out, acc,
                   advances, extra, doc, via, repo>>
    /\ Observed(c)

\* Variant: a fetch only makes progress while its consumer is waiting.
MayCompleteWhenAwaited(c, i) ==
    /\ loop = "running"
    /\ i \in 1..Len(task[c])
    /\ task[c][i].st = "pending"
    /\ pc[c] = "waiting"

\* A detail fetch finishes, whatever its consumer is doing: its future gets
\* the outcome of get and _on_completion puts it on the done queue.
MayComplete(c, i) ==
    /\ loop = "running"
    /\ i \in 1..Len(task[c])
    /\ task[c][i].st = "pending"

CompleteTask(c, i) ==
    /\ MayComplete(c, i)
    /\ \E response \in DetailResponses(task[c][i].name) :
         LET o == GetOutcome(response) IN
         task' = [task EXCEPT ![c][i] =
                    IF o.ok THEN [@ EXCEPT !.st = "ok", !.res = Some(o.val)]
                            ELSE [@ EXCEPT !.st = "failed", !.exc = Some(o.val)]]
    /\ doneq' = [doneq EXCEPT ![c] = Append(@, i)]
    /\ order' = [order EXCEPT ![c] = Append(@, i)]
    /\ UNCHANGED <<loop, listing, kind, arg, pc, idx, names, out, acc, ret,
                   err, advances, extra, sent, doc, via, repo, seen>>

\* berry = await task resumes with the oldest finished future (line 108).
\* A failed one raises out of the generator.  Otherwise the generator
\* yields the berry (line 109); get_all appends it and advances again.
Deliver(c) ==
    /\ loop = "running"
    /\ pc[c] = "waiting"
    /\ doneq[c] # <<>>
    /\ LET f == NextDone(doneq[c])
           t == task[c][f]
       IN /\ doneq' = [doneq EXCEPT ![c] = Taken(@, f)]
          /\ IF ResultRaises(t)
             THEN /\ Raise(c, t.exc[1])
                  /\ task' = [task EXCEPT ![c] = LeftRunning(@)]
                  /\ UNCHANGED <<out, acc, advances>>
             ELSE /\ out' = [out EXCEPT ![c] = Append(@, [fut |-> f, berry |-> t.res[1]])]
                  /\ err' = err
                  /\ task' = task
                  /\ IF kind[c] = "get_all"
                     THEN /\ acc' = [acc EXCEPT ![c] = Append(@, t.res[1])]
                          /\ advances' = [advances EXCEPT ![c] = @ + 1]
                          /\ IF Exhausted(Len(out'[c]), task[c])
                             THEN EndOf(c, acc'[c])
                             ELSE pc' = pc /\ ret' = ret
                     ELSE /\ pc' = [pc EXCEPT ![c] = "yielded"]
                          /\ UNCHANGED <<acc, ret, advances>>
    /\ UNCHANGED <<loop, listing, kind, arg, idx, names, order, extra, sent,
                   doc, via, repo>>
    /\ Observed(c)

\* Variant: the loop of line 107 never notices that it is exhausted.
AdvanceStalls(c) ==
    /\ loop = "running"
    /\ pc[c] = "yielded"
    /\ advances' = [advances EXCEPT ![c] = @ + 1]
    /\ pc' = [pc EXCEPT ![c] = "waiting"]
    /\ ret' = ret
    /\ UNCHANGED <<loop, listing, kind, arg, idx, names, task, doneq, order,
                   out, acc, err, extra, sent, doc, via, repo>>
    /\ Observed(c)

\* The consumer advances after a yield: the for loop of line 107 goes on to
\* wait for the next future, or is exhausted and the generator returns.
Advance(c) ==
    /\ loop = "running"
    /\ pc[c] = "yielded"
    /\ advances' = [advances EXCEPT ![c] = @ + 1]
    /\ IF Exhausted(Len(out[c]), task[c])
       THEN EndOf(c, acc[c])
       ELSE pc' = [pc EXCEPT ![c] = "waiting"] /\ ret' = ret
    /\ UNCHANGED <<loop, listing, kind, arg, idx, names, task, doneq, order,
                   out, acc, err, extra, sent, doc, via, repo>>
    /\ Observed(c)

\* Advancing a generator that has returned or raised: StopAsyncIteration.
AdvanceFinished(c) ==
    /\ loop = "running"
    /\ kind[c] = "get_all_generator"
    /\ pc[c] \in {"ended", "raised"}
    /\ extra[c] < MaxExtra
    /\ extra' = [extra EXCEPT ![c] = @ + 1]
    /\ advances' = [advances EXCEPT ![c] = @ + 1]
    /\ UNCHANGED <<loop, listing, kind, arg, pc, idx, names, task, doneq,
                   order, out, acc, ret, err, sent, doc, via, repo, seen>>

\* asyncio.run(...) of cli.py: once the main coroutine is over (it returned
\* or an error left it), the runner cancels every task still pending and
\* closes the loop.
RunEnds ==
    /\ loop = "running"
    /\ \E c \in Calls : kind[c] # "none"
    /\ \A c \in Calls : kind[c] # "none" => Finished(c)
    /\ loop' = "closed"
    /\ task' = [c \in Calls |-> CancelAllTasks(task[c])]
    /\ UNCHANGED <<listing, kind, arg, pc, idx, names, doneq, order, out, acc,
                   ret, err, advances, extra, sent, doc, via, repo, seen>>

\* One run of the event loop in which the caller makes a single call of the
\* repository, as cli.py does.
Main == 1

Next ==
    \/ \E id \in Names, v \in Vias : CallGet(Main, id, v)
    \/ GetResponse(Main)
    \/ \E v \in Vias : CallGenerator(Main, v)
    \/ AdvanceFirst(Main)
    \/ \E v \in Vias : CallGetAll(Main, v)
    \/ IndexResponse(Main)
    \/ \E i \in 1..Len(task[Main]) : CompleteTask(Main, i)
    \/ Deliver(Main)
    \/ Advance(Main)
    \/ AdvanceFinished(Main)
    \/ RunEnds

Spec == Init /\ [][Next]_vars

\* One run of the event loop in which up to MaxCalls calls of the repository
\* are made directly and run interleaved; the callers leave a finished
\* sequence alone.
InitCalls == Init /\ Len(listing) <= MaxLenCalls

NextCalls ==
    \/ \E c \in Calls, id \in Names : CallGet(c, id, "repository")
    \/ \E c \in Calls : GetResponse(c)
    \/ \E c \in Calls : CallGenerator(c, "repository")
    \/ \E c \in Calls : AdvanceFirst(c)
    \/ \E c \in Calls : CallGetAll(c, "repository")
    \/ \E c \in Calls : IndexResponse(c)
    \/ \E c \in Calls : \E i \in 1..Len(task[c]) : CompleteTask(c, i)
    \/ \E c \in Calls : Deliver(c)
    \/ \E c \in Calls : Advance(c)
    \/ RunEnds

SpecCalls == InitCalls /\ [][NextCalls]_vars

\* The single call of Spec in a run where every detail fetch launched gets
\* its response, the event loop resumes a generator whose awaited future is
\* done, and the consumer advances again after every element it is handed.
FairSpec ==
    /\ Spec
    /\ \A i \in 1..MaxLen : WF_vars(CompleteTask(Main, i))
    /\ WF_vars(Deliver(Main))
    /\ WF_vars(Advance(Main))

\* One run of the event loop in which get is called once, against a remote
\* that holds any document.
InitGet ==
    /\ loop = "running"
    /\ listing = <<>>
    /\ kind = [c \in Calls |-> "none"]
    /\ arg = [c \in Calls |-> None]
    /\ pc = [c \in Calls |-> "none"]
    /\ idx = [c \in Calls |-> "none"]
    /\ names = [c \in Calls |-> <<>>]
    /\ task = [c \in Calls |-> <<>>]
    /\ doneq = [c \in Calls |-> <<>>]
    /\ order = [c \in Calls |-> <<>>]
    /\ out = [c \in Calls |-> <<>>]
    /\ acc = [c \in Calls |-> <<>>]
    /\ ret = [c \in Calls |-> None]
    /\ err = [c \in Calls |-> None]
    /\ advances = [c \in Calls |-> 0]
    /\ extra = [c \in Calls |-> 0]
    /\ sent = [c \in Calls |-> [u \in URLs |-> 0]]
    /\ \E d \in Documents : doc = [n \in Names |-> d]
    /\ via = [c \in Calls |-> "none"]
    /\ repo = [c \in Calls |-> 0]
    /\ seen = [c \in Calls |-> NothingSeen]

NextGet ==
    \/ \E id \in Names : CallGet(Main, id, "repository")
    \/ GetResponse(Main)
    \/ RunEnds

SpecGet == InitGet /\ [][NextGet]_vars

TypeOK ==
    /\ loop \in {"running", "closed"}
    /\ \A c \in Calls :
         /\ kind[c] \in {"none", "get", "get_all", "get_all_generator"}
         /\ pc[c] \in {"none", "get", "created", "index", "waiting", "yielded",
                       "ended", "raised", "returned"}
         /\ Len(task[c]) = Len(names[c])

\* ------------------------------------------------------------ properties
Sequence(c) == kind[c] \in {"get_all", "get_all_generator"}
Futures(c) == 1..Len(task[c])
Pending(c) == {i \in Futures(c) : task[c][i].st = "pending"}
\* Position in completion order that the sequence of c is at: the advances
\* made while it was not yet finished.
Position(c) == advances[c] - extra[c]

\* C1: the k-th element get_all_generator delivers is the result of the k-th
\* detail fetch to finish, whatever that name's place in the listing; a
\* ready result is never overtaken by one that finished later.
CompletionOrder ==
    \A c \in Calls : \A k \in 1..Len(out[c]) :
        /\ k <= Len(order[c])
        /\ out[c][k].fut = order[c][k]
        /\ Some(out[c][k].berry) = task[c][order[c][k]].res
        /\ out[c][k].berry = Berry(RemoteData(names[c][order[c][k]]))

\* Two results delivered in the order they finished, against listing order.
CompletionOrderWitness ==
    /\ kind[Main] = "get_all_generator"
    /\ Len(out[Main]) >= 2
    /\ out[Main][1].fut > out[Main][2].fut
    /\ out[Main][1].berry # out[Main][2].berry

\* C2: a failed detail fetch is raised at the advance that reaches its place
\* in completion order; the items of the fetches that finished before it
\* were yielded first and stay delivered, and nothing is yielded after the
\* failure, whatever finishes later.
RaisedAtPosition(c) ==
    LET p == Len(out[c]) + 1 IN
    /\ \A k \in 1..Len(out[c]) : task[c][out[c][k].fut].st = "ok"
    /\ (pc[c] = "raised" /\ idx[c] = "ok") =>
          /\ p <= Len(order[c])
          /\ task[c][order[c][p]].st = "failed"
          /\ err[c] = task[c][order[c][p]].exc
          /\ Position(c) = p
          /\ \A k \in 1..(p - 1) : out[c][k].fut = order[c][k]
    /\ \A p0 \in 1..Len(order[c]) :
          (/\ task[c][order[c][p0]].st = "failed"
           /\ \A k \in 1..(p0 - 1) : task[c][order[c][k]].st = "ok"
           /\ order[c][p0] \notin {doneq[c][k] : k \in 1..Len(doneq[c])})
          => pc[c] = "raised" /\ Len(out[c]) = p0 - 1

FailureAborts ==
    /\ [](\A c \in Calls : Sequence(c) => RaisedAtPosition(c))
    /\ [][\A c \in Calls : pc[c] = "raised" =>
             pc'[c] = "raised" /\ out'[c] = out[c] /\ err'[c] = err[c]]_vars

\* Three names; the fetches of entries 1 and 3 finished and were yielded,
\* the fetch of entry 2 failed and was raised, and the consumer advanced
\* once more without getting anything.
FailureAbortsWitness ==
    /\ kind[Main] = "get_all_generator"
    /\ Len(listing) = 3
    /\ pc[Main] = "raised"
    /\ {out[Main][k].fut : k \in 1..Len(out[Main])} = {1, 3}
    /\ task[Main][2].st = "failed"
    /\ extra[Main] = 1

\* C3: get_all returns a list only when the index fetch and every detail
\* fetch succeeded; when one fails it raises that error and returns nothing,
\* however many items it had collected.
AllOrNothing ==
    \A c \in Calls : kind[c] = "get_all" =>
        /\ ret[c] # None =>
              /\ pc[c] = "ended"
              /\ idx[c] = "ok"
              /\ \A i \in Futures(c) : task[c][i].st = "ok"
              /\ Len(ret[c][1]) = Len(listing)
        /\ pc[c] = "ended" => ret[c] # None
        /\ pc[c] = "raised" =>
              /\ ret[c] = None
              /\ err[c] # None
              /\ \/ idx[c] # "ok" /\ err[c][1].type = idx[c]
                 \/ \E i \in Futures(c) : task[c][i].st = "failed" /\ err[c] = task[c][i].exc
        /\ (idx[c] \in {HTTPStatusError, KeyError}
              \/ \E i \in Futures(c) : task[c][i].st = "failed") => ret[c] = None

\* get_all raised after it had already collected two items.
AllOrNothingWitness ==
    /\ kind[Main] = "get_all"
    /\ pc[Main] = "raised"
    /\ Len(acc[Main]) = 2
    /\ ret[Main] = None
\* C4: the list get_all returns holds exactly the items that get gives for
\* the names of the index listing: as sets, nothing missing, nothing extra.
SetEquality ==
    \A c \in Calls : (kind[c] = "get_all" /\ ret[c] # None) =>
        {ret[c][1][k] : k \in 1..Len(ret[c][1])}
            = {Berry(RemoteData(listing[k])) : k \in 1..Len(listing)}

\* A list of three with two distinct items, not in listing order.
SetEqualityWitness ==
    /\ kind[Main] = "get_all"
    /\ ret[Main] # None
    /\ Len(listing) = 3
    /\ Len(ret[Main][1]) = 3
    /\ ret[Main][1][1] # Berry(RemoteData(listing[1]))
    /\ ret[Main][1][1] # ret[Main][1][3]

\* C5: when the index request fails (bad status or malformed body) the
\* sequence raises that error on the first advance, has yielded nothing and
\* no detail fetch is ever launched.
IndexFailureFailsAll ==
    \A c \in Calls : (Sequence(c) /\ idx[c] \in {HTTPStatusError, KeyError}) =>
        /\ pc[c] = "raised"
        /\ err[c] # None
        /\ err[c][1].type = idx[c]
        /\ err[c][1].url \in {BaseURL, <<>>}
        /\ Position(c) = 1
        /\ out[c] = <<>>
        /\ acc[c] = <<>>
        /\ ret[c] = None
        /\ task[c] = <<>>
        /\ order[c] = <<>>
        /\ \A n \in Names : sent[c][DetailURL(n)] = 0

\* The index body of a non-empty listing was malformed; the consumer has
\* advanced again since.
IndexFailureFailsAllWitness ==
    /\ kind[Main] = "get_all_generator"
    /\ idx[Main] = KeyError
    /\ Len(listing) >= 1
    /\ extra[Main] = 1

\* C6: after a successful index fetch one detail fetch per listed name is
\* launched, all of them in the step that handles the index response and
\* before any is waited for: no cap, no batches.
FanOutState(c) ==
    idx[c] = "ok" =>
        /\ Len(task[c]) = Len(listing)
        /\ \A i \in Futures(c) : task[c][i].name = listing[i]
        /\ \A n \in Names :
              sent[c][DetailURL(n)] = Cardinality({i \in 1..Len(listing) : listing[i] = n})
        /\ Cardinality(Pending(c)) + Len(order[c]) = Len(listing) \/ loop = "closed"

FullFanOut ==
    /\ [](\A c \in Calls : Sequence(c) => FanOutState(c))
    /\ [][\A c \in Calls : (idx[c] = "sent" /\ idx'[c] = "ok") =>
             /\ Len(task'[c]) = Len(listing)
             /\ \A i \in 1..Len(listing) : task'[c][i].st = "pending"]_vars

\* All fetches of a listing of the greatest length in flight together.
FullFanOutWitness ==
    /\ Len(listing) = MaxLen
    /\ pc[Main] = "waiting"
    /\ Cardinality(Pending(Main)) = MaxLen

\* C7: the consumer never holds more items than it made advances, and a
\* launched detail fetch can finish in every state of the running loop,
\* also while the consumer is not advancing.
LazyDeliveryEagerIO ==
    \A c \in Calls : Sequence(c) =>
        /\ Len(out[c]) <= Position(c)
        /\ \A i \in Futures(c) :
              (loop = "running" /\ task[c][i].st = "pending") => ENABLED CompleteTask(c, i)

\* The consumer holds the first item and has not advanced; two more fetches
\* finished meanwhile and wait undelivered.
LazyDeliveryEagerIOWitness ==
    /\ kind[Main] = "get_all_generator"
    /\ pc[Main] = "yielded"
    /\ Len(out[Main]) = 1
    /\ advances[Main] = 1
    /\ Len(doneq[Main]) = 2

\* C8 as claimed: no detail fetch is ever cancelled, also not when the
\* event-loop run of the CLI ends.
NeverCancelled ==
    \A c \in Calls : \A i \in Futures(c) : task[c][i].st # "cancelled"

\* C8 as amended: while the event loop runs no detail fetch is cancelled,
\* also after the sequence raised or the consumer stopped advancing; a
\* fetch is cancelled only by the end of the run.
NotCancelledWhileRunning ==
    /\ [](loop = "running" => NeverCancelled)
    /\ [][\A c \in Calls : \A i \in Futures(c) :
             (task[c][i].st = "pending" /\ loop' = "running")
                => task'[c][i].st \in {"pending", "ok", "failed"}]_vars

\* The sequence raised; afterwards one fetch finished and one is in flight.
NotCancelledWhileRunningWitness ==
    /\ loop = "running"
    /\ pc[Main] = "raised"
    /\ idx[Main] = "ok"
    /\ doneq[Main] # <<>>
    /\ Pending(Main) # {}

\* C9: every call issues its own requests: a get one GET of its URL, a
\* sequence one index GET once advanced and one detail GET per entry of the
\* listing, whatever other calls did or are doing.
OwnRequests(c) ==
    /\ kind[c] = "none" => \A u \in URLs : sent[c][u] = 0
    /\ kind[c] = "get" =>
          \A u \in URLs : sent[c][u] = IF u = DetailURL(arg[c][1]) THEN 1 ELSE 0
    /\ Sequence(c) =>
          /\ sent[c][BaseURL] = IF pc[c] = "created" THEN 0 ELSE 1
          /\ \A n \in Names :
                sent[c][DetailURL(n)] = Cardinality({i \in Futures(c) : task[c][i].name = n})
          /\ idx[c] = "ok" => Len(task[c]) = Len(listing)
          /\ \A k \in 1..Len(out[c]) : Some(out[c][k].berry) = task[c][out[c][k].fut].res

NothingShared == \A c \in Calls : OwnRequests(c)

\* Two sequences over the same non-empty listing, the first one ended, the
\* second one launched.
NothingSharedWitness ==
    /\ Len(listing) >= 1
    /\ \E c, d \in Calls :
          /\ c # d
          /\ Sequence(c) /\ pc[c] = "ended"
          /\ Sequence(d) /\ idx[d] = "ok"

\* C10: an empty listing gives an empty sequence that ends normally, an
\* empty list from get_all and no detail fetch; a listing of one entry gives
\* a sequence of exactly one item.
EmptyAndSingle ==
    \A c \in Calls : (Sequence(c) /\ idx[c] = "ok") =>
        /\ Len(listing) = 0 =>
              /\ pc[c] = "ended"
              /\ out[c] = <<>>
              /\ err[c] = None
              /\ task[c] = <<>>
              /\ \A n \in Names : sent[c][DetailURL(n)] = 0
              /\ kind[c] = "get_all" => ret[c] = Some(<<>>)
        /\ Len(listing) = 1 =>
              /\ Len(out[c]) <= 1
              /\ pc[c] = "ended" =>
                    /\ Len(out[c]) = 1
                    /\ out[c][1].berry = Berry(RemoteData(listing[1]))
                    /\ kind[c] = "get_all" => ret[c] = Some(<<Berry(RemoteData(listing[1]))>>)

\* get_all returned the empty list for an empty listing.
EmptyAndSingleWitness ==
    /\ listing = <<>>
    /\ kind[Main] = "get_all"
    /\ ret[Main] = Some(<<>>)
\* The document has every field lines 73-80 read.
Complete(d) ==
    /\ {"id", "name", "firmness", "flavors"} \subseteq DOMAIN d
    /\ {"name", "url"} \subseteq DOMAIN d.firmness
    /\ \A k \in 1..Len(d.flavors) :
          /\ {"flavor", "potency"} \subseteq DOMAIN d.flavors[k]
          /\ {"name", "url"} \subseteq DOMAIN d.flavors[k].flavor
Asked(c) == doc[arg[c][1]]

\* C11: for a detail document that lacks id, firmness, flavors or a nested
\* field, get fails with the error of the missing key (KeyError, the
\* malformed-response error) and returns nothing; whatever get returns is a
\* whole Berry, no absent field is defaulted.
MalformedFails ==
    \A c \in Calls : kind[c] = "get" =>
        /\ ret[c] # None =>
              /\ pc[c] = "returned"
              /\ err[c] = None
              /\ Complete(Asked(c))
              /\ DOMAIN ret[c][1] = {"id", "name", "firmness", "flavors"}
        /\ (Finished(c) /\ ~Complete(Asked(c))) =>
              /\ pc[c] = "raised"
              /\ ret[c] = None
              /\ err[c] # None
              /\ err[c][1].type \in {KeyError, HTTPStatusError}
        /\ (pc[c] = "raised" /\ err[c][1].type = KeyError) =>
              /\ ~Complete(Asked(c))
              /\ err[c][1].key \in {"id", "name", "firmness", "flavors", "flavor", "url", "potency"}

\* The document lacks only "flavors"; get raised the KeyError of that key.
MalformedFailsWitness ==
    /\ kind[Main] = "get"
    /\ DOMAIN Asked(Main) = {"id", "name", "firmness"}
    /\ DOMAIN Asked(Main).firmness = {"name", "url"}
    /\ pc[Main] = "raised"
    /\ err[Main][1].type = KeyError
    /\ err[Main][1].key = "flavors"

\* C12: a call of get issues exactly one GET, to {url}/{id}; on a non-success
\* status it raises an error carrying the status code and that URL, returns
\* no Item, and the request is not sent again.
SingleRequestNoRetry ==
    \A c \in Calls : kind[c] = "get" =>
        /\ \A u \in URLs : sent[c][u] = IF u = DetailURL(arg[c][1]) THEN 1 ELSE 0
        /\ (pc[c] = "raised" /\ err[c][1].type = HTTPStatusError) =>
              /\ err[c][1].status_code \notin 200..299
              /\ err[c][1].url = DetailURL(arg[c][1])
              /\ ret[c] = None

\* get raised for a non-success status and the run went on to its end.
SingleRequestNoRetryWitness ==
    /\ kind[Main] = "get"
    /\ pc[Main] = "raised"
    /\ err[Main][1].type = HTTPStatusError
    /\ err[Main][1].status_code = 404
    /\ loop = "closed"

\* C13: for a well-formed document get returns the Berry whose id, name and
\* firmness are the document's and whose flavors are the document's
\* flavors, as many and in the same order; no flavors give an empty list.
ExactMapping ==
    \A c \in Calls : kind[c] = "get" =>
        /\ pc[c] = "returned" =>
              LET d == Asked(c)
                  b == ret[c][1]
              IN /\ b.id = d.id
                 /\ b.name = d.name
                 /\ b.firmness = [name |-> d.firmness.name, url |-> d.firmness.url]
                 /\ Len(b.flavors) = Len(d.flavors)
                 /\ \A k \in 1..Len(d.flavors) :
                       b.flavors[k] = [name |-> d.flavors[k].flavor.name,
                                       url |-> d.flavors[k].flavor.url,
                                       potency |-> d.flavors[k].potency]
                 /\ d.flavors = <<>> => b.flavors = <<>>
        /\ (pc[c] = "raised" /\ Complete(Asked(c))) => err[c][1].type = HTTPStatusError

\* A Berry of two flavors of different potency was returned for a document
\* whose name is not the identifier asked for.
ExactMappingWitness ==
    /\ kind[Main] = "get"
    /\ pc[Main] = "returned"
    /\ Len(ret[Main][1].flavors) = 2
    /\ ret[Main][1].flavors[1].potency = 0
    /\ ret[Main][1].flavors[2].potency = 10
    /\ ret[Main][1].name # arg[Main][1]
\* What the repository handed to the caller of call c.
Handed(c) ==
    [out |-> IF kind[c] = "get_all_generator" THEN BerriesOf(out[c]) ELSE <<>>,
     ret |-> ret[c],
     err |-> err[c]]

\* C14 as claimed: the service hands on exactly what the repository gives,
\* and every call of the service makes exactly one call of the repository.
FacadeOneCallEach ==
    \A c \in Calls : via[c] = "service" => (seen[c] = Handed(c) /\ repo[c] = 1)

\* C14 as amended: the service hands on exactly what the repository gives
\* (same value, same elements in the same order, same error at the same
\* place) and makes at most one call of the repository per call: exactly one
\* for get and get_all, and for get_all_generator none until the sequence is
\* advanced for the first time and exactly one from then on.
FacadeDelegates ==
    \A c \in Calls : via[c] = "service" =>
        /\ seen[c] = Handed(c)
        /\ repo[c] = IF kind[c] = "get_all_generator" /\ pc[c] = "created" THEN 0 ELSE 1

\* A sequence got through the service gave one berry and then the error.
FacadeDelegatesWitness ==
    /\ via[Main] = "service"
    /\ kind[Main] = "get_all_generator"
    /\ pc[Main] = "raised"
    /\ Len(seen[Main].out) = 1
    /\ seen[Main].err # None
    /\ repo[Main] = 1

\* C15: the list get_all returns is, element for element, what the
\* generator yielded, which is the order the fetches finished in, not the
\* order of the listing.
DrainsInOrder ==
    \A c \in Calls : (kind[c] = "get_all" /\ ret[c] # None) =>
        /\ ret[c][1] = BerriesOf(out[c])
        /\ Len(ret[c][1]) = Len(order[c])
        /\ \A k \in 1..Len(ret[c][1]) :
              /\ Some(ret[c][1][k]) = task[c][order[c][k]].res
              /\ ret[c][1][k].name = names[c][order[c][k]]

\* Two names; the list has the second name's berry first.
DrainsInOrderWitness ==
    /\ kind[Main] = "get_all"
    /\ Len(listing) = 2
    /\ ret[Main] # None
    /\ ret[Main][1][1].name = listing[2]
    /\ ret[Main][1][2].name = listing[1]
    /\ listing[1] # listing[2]

EndedWithAll(c) ==
    /\ pc[c] = "ended"
    /\ Len(out[c]) = Len(names[c])
    /\ Len(names[c]) = Len(listing)
    /\ kind[c] = "get_all" => ret[c] # None /\ Len(ret[c][1]) = Len(listing)

Termination ==
    /\ [](\A c \in Calls : (Sequence(c) /\ idx[c] = "ok") =>
            /\ Len(out[c]) <= Len(listing)
            /\ pc[c] = "ended" => EndedWithAll(c))
    /\ \A c \in Calls :
          (Sequence(c) /\ idx[c] = "ok") ~>
              (EndedWithAll(c) \/ \E i \in Futures(c) : task[c][i].st = "failed")

\* A sequence over a listing of MaxLen names has ended after yielding all.
TerminationWitness ==
    /\ kind[Main] = "get_all_generator"
    /\ Len(listing) = MaxLen
    /\ EndedWithAll(Main)
    /\ \A i \in Futures(Main) : task[Main][i].st = "ok"
    /\ loop = "running"

\* The futures of c by what became of them: finished and waiting on the
\* done queue, yielded to the consumer as a Berry, raised to the consumer
\* as the error of the sequence, cancelled.
Queued(c) == {doneq[c][k] : k \in 1..Len(doneq[c])}
Yielded(c) == {out[c][k].fut : k \in 1..Len(out[c])}
RaisedOf(c) == {i \in Futures(c) : task[c][i].st = "failed" /\ i \notin Queued(c)}
Cancelled(c) == {i \in Futures(c) : task[c][i].st = "cancelled"}

\* One fetch per entry of the listing, duplicates included, and each
\* finished fetch handed to the consumer at most once.
OnePerEntry(c) ==
    /\ Len(task[c]) = Len(listing)
    /\ \A i \in Futures(c) : task[c][i].name = listing[i]
    /\ \A n \in Names : sent[c][DetailURL(n)] =
                           Cardinality({i \in 1..Len(listing) : listing[i] = n})
    /\ Cardinality(Yielded(c)) = Len(out[c])
    /\ Cardinality(Queued(c)) = Len(doneq[c])
    /\ Cardinality(RaisedOf(c)) <= 1
    /\ RaisedOf(c) # {} <=> (pc[c] = "raised")
    /\ Yielded(c) \cap RaisedOf(c) = {}
    /\ (Yielded(c) \cup RaisedOf(c)) \cap Queued(c) = {}
    /\ (Yielded(c) \cup RaisedOf(c) \cup Queued(c)) \cap Pending(c) = {}

\* Delivered (yielded or raised), finished but undelivered, and in flight.
Accounted(c) ==
    Cardinality(Yielded(c)) + Cardinality(RaisedOf(c))
        + Len(doneq[c]) + Cardinality(Pending(c))

\* C18 as stated: one fetch per listing entry, each delivered at most once,
\* and delivered + finished-undelivered + in-flight is N in every state.
AlwaysAccounted ==
    \A c \in Calls : (Sequence(c) /\ idx[c] = "ok") =>
        /\ OnePerEntry(c)
        /\ Accounted(c) = Len(listing)

\* C18 as amended: one fetch per listing entry (a name listed twice is
\* fetched twice), each delivered at most once; delivered +
\* finished-undelivered + in-flight is N while the event loop runs, and
\* once the run has ended the fetches it cancelled make up the difference.
AccountedOrCancelled ==
    \A c \in Calls : (Sequence(c) /\ idx[c] = "ok") =>
        /\ OnePerEntry(c)
        /\ Accounted(c) + Cardinality(Cancelled(c)) = Len(listing)
        /\ loop = "running" => Cancelled(c) = {}
        /\ Cancelled(c) # {} => pc[c] = "raised"

\* A name listed twice: one of its fetches yielded, the other finished and
\* waiting, and a third fetch in flight.
AccountedOrCancelledWitness ==
    /\ Len(listing) = 3
    /\ listing[1] = listing[2]
    /\ kind[Main] = "get_all_generator"
    /\ Yielded(Main) = {2}
    /\ Queued(Main) = {1}
    /\ Pending(Main) = {3}

\* C19: calling get_all_generator, directly or through the service, issues
\* no request; the index request goes out with the first advance and only
\* once; the detail fetches are launched in the step in which the index
\* response arrives; a sequence created and not advanced has sent nothing.
NoRequests(c) == \A u \in URLs : sent[c][u] = 0
Generator(c) == kind[c] = "get_all_generator"

DeferredStart ==
    /\ [](\A c \in Calls : Generator(c) =>
            /\ (pc[c] = "created" <=> advances[c] = 0)
            /\ pc[c] = "created" => NoRequests(c) /\ idx[c] = "none" /\ task[c] = <<>>
            /\ sent[c][BaseURL] = IF advances[c] = 0 THEN 0 ELSE 1
            /\ idx[c] # "ok" => task[c] = <<>> /\ \A n \in Names : sent[c][DetailURL(n)] = 0)
    /\ [][\A c \in Calls :
            /\ (kind[c] = "none" /\ Generator(c)') => NoRequests(c)' /\ advances'[c] = 0
            /\ (Generator(c) /\ sent'[c][BaseURL] # sent[c][BaseURL]) =>
                   advances[c] = 0 /\ advances'[c] = 1
            /\ (Generator(c) /\ \E n \in Names : sent'[c][DetailURL(n)] # sent[c][DetailURL(n)]) =>
                   idx[c] = "sent" /\ idx'[c] = "ok"
            /\ (Generator(c) /\ task'[c] # <<>> /\ task[c] = <<>>) =>
                   idx[c] = "sent" /\ idx'[c] = "ok"]_vars

\* A sequence got through the service and not advanced.
DeferredStartWitness ==
    /\ Generator(Main)
    /\ via[Main] = "service"
    /\ pc[Main] = "created"
    /\ advances[Main] = 0
    /\ NoRequests(Main)
    /\ listing # <<>>

====
